---- MODULE Spec2Model ----
(***************************************************************************)
(* Model of the authenticated transport of the wallet client               *)
(* (halogencapital/wallet-go): Client construction (New), the stored       *)
(* credentials (SetCredentials, defaultCredentialsLoaderFunc) and the      *)
(* request executor Client.query with its retry / rate-limit loop.         *)
(*                                                                         *)
(* One call is a process whose position (pc) walks through the body of     *)
(* Client.query: build -> creds -> token -> sign -> send -> inflight ->    *)
(* evaluate -> (sleep429 | sleep5xx -> build) | done.  The server, the     *)
(* credential-retrieval function, the random source and the caller's       *)
(* context are the environment: their outcomes are chosen with \E.         *)
(* Durations are counted in milliseconds.  The Debug logging branches of   *)
(* query (doc.go 283-289, 294-300) only log and are left out.              *)
(***************************************************************************)
EXTENDS Integers, Sequences, FiniteSets, TLC

\* ------------------------------------------------------------------ bounds
MaxM == 3
Max429 == 2
NumCalls == 2
MaxDigits == 19

\* ------------------------------------------------------- program constants
Millisecond == 1
Second == 1000
Hour == 3600 * Second
DefaultMaxReadRetry == 5
DefaultRetryInterval == 50 * Millisecond
DefaultTimeout == 10 * Second
StatusBadRequest == 400
StatusTooManyRequests == 429
StatusInternalServerError == 500
endpoint == "https://external-api.wallet.halogen.my"
userAgent == "wallet/0.0.1 lang/go"

Nil == [nil |-> TRUE]

Calls == 1 .. NumCalls

\* ---------------------------------------------------------------- inputs
\* (key id, PEM blob) pairs the caller hands to SetCredentials
SetInputs == {<<"k1", "pem1">>, <<"k2", "pem2">>, <<"k1", "badpem">>}
\* what the caller's retrieval function can return
LoaderKeyIDs == {"lk"}
LoaderPEMs == {"lpem", "lbadpem"}
\* PEM blobs that do not parse as an EC or RSA private key
BadPEMs == {"badpem", "lbadpem"}

\* payloads: JSON texts, and one value json.Marshal rejects
Unencodable == <<"chan">>
Payloads == {<<"{", "}">>, Unencodable}

\* ------------------------------------------------------------------- New
NilHTTPClient == [isNil |-> TRUE, Timeout |-> 0]

\* New with "< 0" where the code tests "<= 0"
NewKeepZero(opts) ==
    IF Len(opts) = 0
    THEN [CredentialsLoaderFunc |-> FALSE,
          HTTPClient |-> [isNil |-> FALSE, Timeout |-> DefaultTimeout],
          MaxReadRetry |-> DefaultMaxReadRetry,
          RetryInterval |-> DefaultRetryInterval]
    ELSE LET o == opts[1]
             h1 == IF o.HTTPClient.isNil
                   THEN [isNil |-> FALSE, Timeout |-> DefaultTimeout]
                   ELSE o.HTTPClient
             h2 == IF h1.Timeout <= 0
                   THEN [h1 EXCEPT !.Timeout = DefaultTimeout]
                   ELSE h1
         IN  [CredentialsLoaderFunc |-> o.CredentialsLoaderFunc,
              HTTPClient |-> h2,
              MaxReadRetry |-> IF o.MaxReadRetry < 0
                               THEN DefaultMaxReadRetry
                               ELSE o.MaxReadRetry,
              RetryInterval |-> IF o.RetryInterval < 0
                                THEN DefaultRetryInterval
                                ELSE o.RetryInterval]

\* New(opts ...*Options): opts is the sequence of the variadic arguments
New(opts) ==
    IF Len(opts) = 0
    THEN [CredentialsLoaderFunc |-> FALSE,
          HTTPClient |-> [isNil |-> FALSE, Timeout |-> DefaultTimeout],
          MaxReadRetry |-> DefaultMaxReadRetry,
          RetryInterval |-> DefaultRetryInterval]
    ELSE LET o == opts[1]
             h1 == IF o.HTTPClient.isNil
                   THEN [isNil |-> FALSE, Timeout |-> DefaultTimeout]
                   ELSE o.HTTPClient
             h2 == IF h1.Timeout <= 0
                   THEN [h1 EXCEPT !.Timeout = DefaultTimeout]
                   ELSE h1
         IN  [CredentialsLoaderFunc |-> o.CredentialsLoaderFunc,
              HTTPClient |-> h2,
              MaxReadRetry |-> IF o.MaxReadRetry <= 0
                               THEN DefaultMaxReadRetry
                               ELSE o.MaxReadRetry,
              RetryInterval |-> IF o.RetryInterval <= 0
                                THEN DefaultRetryInterval
                                ELSE o.RetryInterval]

\* the Options values the callers of this model hand to New
OptionsInputs ==
    [CredentialsLoaderFunc : BOOLEAN,
     HTTPClient : {NilHTTPClient},
     MaxReadRetry : -1 .. MaxM,
     RetryInterval : {0, 100 * Millisecond}]

\* ------------------------------------------------------------ JSON, bytes
RECURSIVE TrimRight(_, _)
TrimRight(b, cut) ==
    IF Len(b) > 0 /\ b[Len(b)] = cut
    THEN TrimRight(SubSeq(b, 1, Len(b) - 1), cut)
    ELSE b

\* json.NewEncoder(&buf).Encode(v): the JSON text followed by a newline
Encode(v) ==
    IF v = Unencodable
    THEN [err |-> TRUE, bytes |-> <<>>]
    ELSE [err |-> FALSE, bytes |-> v \o <<"\n">>]

\* Encode(queryInput{Name: name, Payload: input})
EncodeEnvelope(name, input) ==
    IF input = Unencodable
    THEN [err |-> TRUE, bytes |-> <<>>]
    ELSE [err |-> FALSE,
          bytes |-> <<"{", "name", ":", name, ",", "payload", ":">>
                    \o input \o <<"}", "\n">>]

\* ---------------------------------------------------------- HTTP answers
CharDigits == {"0", "1", "2", "3", "4", "5", "6", "7", "8", "9"}
DigitVal(ch) ==
    CASE ch = "0" -> 0 [] ch = "1" -> 1 [] ch = "2" -> 2 [] ch = "3" -> 3
      [] ch = "4" -> 4 [] ch = "5" -> 5 [] ch = "6" -> 6 [] ch = "7" -> 7
      [] ch = "8" -> 8 [] ch = "9" -> 9

RECURSIVE DigitsValue(_)
DigitsValue(s) ==
    IF Len(s) = 0 THEN 0
    ELSE 10 * DigitsValue(SubSeq(s, 1, Len(s) - 1)) + DigitVal(s[Len(s)])

\* strconv.ParseInt(s, 10, 64) on a header value given as its characters
ParseInt(s) ==
    LET signed == Len(s) > 0 /\ s[1] \in {"+", "-"}
        digits == IF signed THEN SubSeq(s, 2, Len(s)) ELSE s
    IN  IF Len(digits) = 0 \/ \E i \in 1 .. Len(digits) : digits[i] \notin CharDigits
        THEN [err |-> TRUE, i |-> 0]
        ELSE [err |-> FALSE,
              i |-> IF signed /\ s[1] = "-"
                    THEN 0 - DigitsValue(digits)
                    ELSE DigitsValue(digits)]

\* Retry-After header values: absent (Header.Get gives ""), seconds, an HTTP date
RetryAfterValues ==
    {<<>>, <<"1">>, <<"2">>, <<"W", "e", "d", ",", "2", "1">>}

\* response bodies: not JSON at all (empty, HTML, truncated), or a JSON object
BodyNotJSON == [json |-> FALSE, hasStatusCode |-> FALSE, statusCode |-> 0,
                code |-> "", message |-> ""]
BodyPlain == [json |-> TRUE, hasStatusCode |-> FALSE, statusCode |-> 0,
              code |-> "ErrInternal", message |-> "msg"]
BodyWithStatus == [json |-> TRUE, hasStatusCode |-> TRUE, statusCode |-> 418,
                   code |-> "ErrInternal", message |-> "msg"]
Bodies == {BodyNotJSON, BodyPlain, BodyWithStatus}

Statuses == {200, 400, 404, 429, 499, 500, 503}

Responses ==
    [StatusCode : Statuses \ {StatusTooManyRequests},
     RetryAfter : {<<>>}, Body : Bodies]
    \cup [StatusCode : {StatusTooManyRequests},
          RetryAfter : RetryAfterValues, Body : Bodies]

\* ------------------------------------------------------------------ state
\* options, credentials: the fields of Client; calls: the calls in progress;
\* setArgs: the arguments of the last SetCredentials call (history);
\* newArgs: the arguments New was called with (history);
\* wait: the wait after a 429 response, computed at the width of the code
VARIABLES options, credentials, calls, setArgs, newArgs, wait

vars == <<options, credentials, calls, setArgs, newArgs, wait>>

IdleCall ==
    [pc |-> "idle", kind |-> "query", name |-> "", input |-> <<>>, ctxNil |-> FALSE,
     cancelled |-> FALSE, cancelPc |-> "", postCancel |-> {},
     retriedCount |-> 0, attempt |-> 0,
     reqBody |-> <<>>, req |-> Nil,
     keyID |-> "", privateKeyPEM |-> "",
     token |-> Nil, signature |-> Nil, wire |-> Nil, resp |-> Nil, ret |-> Nil,
     output |-> Nil,
     sent |-> 0, got5xx |-> 0, got429 |-> 0, retried429 |-> 0,
     sleeps |-> 0, lastSleep |-> 0,
     loaderCalls |-> 0, signs |-> 0,
     openBodies |-> 0]

Init ==
    /\ \E opts \in {<<>>} \cup {<<o>> : o \in OptionsInputs} :
          /\ newArgs = opts
          /\ options = New(opts)
    /\ credentials = Nil
    /\ calls = [c \in Calls |-> IdleCall]
    /\ wait = Nil
    /\ setArgs = Nil

\* ------------------------------------------------------------ credentials
\* SetCredentials without the check for a retrieval function
StoredAlways(o, stored, keyID, privateKeyPEM) ==
    [keyID |-> keyID, privateKeyPEM |-> privateKeyPEM]

\* Client.SetCredentials(keyID, privateKeyPEM): the value of c.credentials after it
StoredAfterSetCredentials(o, stored, keyID, privateKeyPEM) ==
    IF o.CredentialsLoaderFunc
    THEN stored
    ELSE [keyID |-> keyID, privateKeyPEM |-> privateKeyPEM]

SetCredentials(keyID, privateKeyPEM) ==
    /\ credentials' = StoredAfterSetCredentials(options, credentials, keyID, privateKeyPEM)
    /\ setArgs' = [keyID |-> keyID, privateKeyPEM |-> privateKeyPEM]
    /\ UNCHANGED <<options, calls, newArgs, wait>>

\* defaultCredentialsLoaderFunc without the nil check: empty credentials, no error
defaultCredentialsNoCheck(stored) ==
    IF stored = Nil
    THEN [keyID |-> "", privateKeyPEM |-> "", err |-> FALSE]
    ELSE [keyID |-> stored.keyID, privateKeyPEM |-> stored.privateKeyPEM, err |-> FALSE]

\* Client.defaultCredentialsLoaderFunc()
defaultCredentialsLoaderFunc(stored) ==
    IF stored = Nil
    THEN [keyID |-> "", privateKeyPEM |-> "", err |-> TRUE]
    ELSE [keyID |-> stored.keyID, privateKeyPEM |-> stored.privateKeyPEM, err |-> FALSE]

\* the results the caller's CredentialsLoaderFunc can give
LoaderResults ==
    [keyID : LoaderKeyIDs, privateKeyPEM : LoaderPEMs, err : {FALSE}]
    \cup {[keyID |-> "", privateKeyPEM |-> "", err |-> TRUE]}

\* ------------------------------------------------------------------ token
Route(kind) == IF kind = "query" THEN "/query" ELSE "/command"

Sha256Hex(bytes) == <<"sha256">> \o bytes

\* newToken(keyID, uri, body, validity, cleanup); nonce comes from the random source
newToken(keyID, uri, body, validity, cleanup, nonce) ==
    [kid |-> keyID, sub |-> "wallet", uri |-> uri, bodyHash |-> Sha256Hex(body),
     nonce |-> nonce, validity |-> validity]

KeyAlg(pem) == IF pem \in {"pem2"} THEN "RS256" ELSE "ES256"

\* token.signAndFormat(privateKeyPEM)
signAndFormat(token, pem) ==
    IF pem \in BadPEMs \/ pem = ""
    THEN [err |-> TRUE, signature |-> Nil]
    ELSE [err |-> FALSE,
          signature |-> [alg |-> KeyAlg(pem), typ |-> "JWT", claims |-> token, key |-> pem]]

\* ------------------------------------------------------- results of a call
Ret(type) == [type |-> type, StatusCode |-> 0, Code |-> "", Message |-> ""]
RetError(e) ==
    [type |-> "Error", StatusCode |-> e.StatusCode, Code |-> e.Code, Message |-> e.Message]

\* json.NewDecoder(resp.Body).Decode(&sdkErr)
DecodeError(body, into) ==
    IF ~body.json
    THEN [err |-> TRUE, val |-> into]
    ELSE [err |-> FALSE,
          val |-> [StatusCode |-> IF body.hasStatusCode THEN body.statusCode
                                  ELSE into.StatusCode,
                   Code |-> body.code, Message |-> body.message]]

\* json.NewDecoder(resp.Body).Decode(&output): the value the caller's output gets
DecodeOutput(body) ==
    IF ~body.json
    THEN [err |-> TRUE, val |-> Nil]
    ELSE [err |-> FALSE,
          val |-> IF body.hasStatusCode
                  THEN [statusCode |-> body.statusCode, code |-> body.code,
                        message |-> body.message]
                  ELSE [code |-> body.code, message |-> body.message]]

Outcome(next, ret, sleep, retriedCount) ==
    [next |-> next, ret |-> ret, sleep |-> sleep, retriedCount |-> retriedCount]

\* queryOutcome with the error of the final Decode(&output) dropped
queryOutcomeDropDecodeErr(resp, retriedCount, o) ==
    LET sdkErr == [StatusCode |-> resp.StatusCode, Code |-> "", Message |-> ""]
        d == DecodeError(resp.Body, sdkErr)
        ra == ParseInt(resp.RetryAfter)
    IN  IF resp.StatusCode >= StatusBadRequest
        THEN IF d.err
             THEN Outcome("done", RetError(d.val), 0, retriedCount)
             ELSE IF resp.StatusCode = StatusTooManyRequests
             THEN IF ra.err
                  THEN Outcome("done", RetError(d.val), 0, retriedCount)
                  ELSE Outcome("sleep429", Nil, ra.i * Second, retriedCount)
             ELSE IF resp.StatusCode >= StatusInternalServerError
             THEN IF retriedCount >= o.MaxReadRetry - 1
                  THEN Outcome("done", RetError(d.val), 0, retriedCount)
                  ELSE Outcome("sleep5xx", Nil, o.RetryInterval, retriedCount + 1)
             ELSE Outcome("done", RetError(d.val), 0, retriedCount)
        ELSE Outcome("done", Ret("ok"), 0, retriedCount)

\* queryOutcome with the server-error test widened to every status >= 400
queryOutcomeRetry4xx(resp, retriedCount, o) ==
    LET sdkErr == [StatusCode |-> resp.StatusCode, Code |-> "", Message |-> ""]
        d == DecodeError(resp.Body, sdkErr)
        ra == ParseInt(resp.RetryAfter)
    IN  IF resp.StatusCode >= StatusBadRequest
        THEN IF d.err
             THEN Outcome("done", RetError(d.val), 0, retriedCount)
             ELSE IF resp.StatusCode = StatusTooManyRequests
             THEN IF ra.err
                  THEN Outcome("done", RetError(d.val), 0, retriedCount)
                  ELSE Outcome("sleep429", Nil, ra.i * Second, retriedCount)
             ELSE IF retriedCount >= o.MaxReadRetry - 1
                  THEN Outcome("done", RetError(d.val), 0, retriedCount)
                  ELSE Outcome("sleep5xx", Nil, o.RetryInterval, retriedCount + 1)
        ELSE IF ~DecodeOutput(resp.Body).err
             THEN Outcome("done", Ret("ok"), 0, retriedCount)
             ELSE Outcome("done", Ret("decode"), 0, retriedCount)

\* queryOutcome returning the decoder's error for an undecodable error body
queryOutcomePlainDecodeErr(resp, retriedCount, o) ==
    LET sdkErr == [StatusCode |-> resp.StatusCode, Code |-> "", Message |-> ""]
        d == DecodeError(resp.Body, sdkErr)
        ra == ParseInt(resp.RetryAfter)
    IN  IF resp.StatusCode >= StatusBadRequest
        THEN IF d.err
             THEN Outcome("done", Ret("decode"), 0, retriedCount)
             ELSE IF resp.StatusCode = StatusTooManyRequests
             THEN IF ra.err
                  THEN Outcome("done", RetError(d.val), 0, retriedCount)
                  ELSE Outcome("sleep429", Nil, ra.i * Second, retriedCount)
             ELSE IF resp.StatusCode >= StatusInternalServerError
             THEN IF retriedCount >= o.MaxReadRetry - 1
                  THEN Outcome("done", RetError(d.val), 0, retriedCount)
                  ELSE Outcome("sleep5xx", Nil, o.RetryInterval, retriedCount + 1)
             ELSE Outcome("done", RetError(d.val), 0, retriedCount)
        ELSE IF ~DecodeOutput(resp.Body).err
             THEN Outcome("done", Ret("ok"), 0, retriedCount)
             ELSE Outcome("done", Ret("decode"), 0, retriedCount)

\* queryOutcome waiting the retry interval when Retry-After cannot be parsed
queryOutcomeDefaultWait(resp, retriedCount, o) ==
    LET sdkErr == [StatusCode |-> resp.StatusCode, Code |-> "", Message |-> ""]
        d == DecodeError(resp.Body, sdkErr)
        ra == ParseInt(resp.RetryAfter)
    IN  IF resp.StatusCode >= StatusBadRequest
        THEN IF d.err
             THEN Outcome("done", RetError(d.val), 0, retriedCount)
             ELSE IF resp.StatusCode = StatusTooManyRequests
             THEN IF ra.err
                  THEN Outcome("sleep429", Nil, o.RetryInterval, retriedCount)
                  ELSE Outcome("sleep429", Nil, ra.i * Second, retriedCount)
             ELSE IF resp.StatusCode >= StatusInternalServerError
             THEN IF retriedCount >= o.MaxReadRetry - 1
                  THEN Outcome("done", RetError(d.val), 0, retriedCount)
                  ELSE Outcome("sleep5xx", Nil, o.RetryInterval, retriedCount + 1)
             ELSE Outcome("done", RetError(d.val), 0, retriedCount)
        ELSE IF ~DecodeOutput(resp.Body).err
             THEN Outcome("done", Ret("ok"), 0, retriedCount)
             ELSE Outcome("done", Ret("decode"), 0, retriedCount)

\* queryOutcome starting the server-error count afresh after a rate limit
queryOutcomeReset(resp, retriedCount, o) ==
    LET sdkErr == [StatusCode |-> resp.StatusCode, Code |-> "", Message |-> ""]
        d == DecodeError(resp.Body, sdkErr)
        ra == ParseInt(resp.RetryAfter)
    IN  IF resp.StatusCode >= StatusBadRequest
        THEN IF d.err
             THEN Outcome("done", RetError(d.val), 0, retriedCount)
             ELSE IF resp.StatusCode = StatusTooManyRequests
             THEN IF ra.err
                  THEN Outcome("done", RetError(d.val), 0, retriedCount)
                  ELSE Outcome("sleep429", Nil, ra.i * Second, 0)
             ELSE IF resp.StatusCode >= StatusInternalServerError
             THEN IF retriedCount >= o.MaxReadRetry - 1
                  THEN Outcome("done", RetError(d.val), 0, retriedCount)
                  ELSE Outcome("sleep5xx", Nil, o.RetryInterval, retriedCount + 1)
             ELSE Outcome("done", RetError(d.val), 0, retriedCount)
        ELSE IF ~DecodeOutput(resp.Body).err
             THEN Outcome("done", Ret("ok"), 0, retriedCount)
             ELSE Outcome("done", Ret("decode"), 0, retriedCount)

\* queryOutcome giving up one 5xx response later (> in place of >=)
queryOutcomeOneMore(resp, retriedCount, o) ==
    LET sdkErr == [StatusCode |-> resp.StatusCode, Code |-> "", Message |-> ""]
        d == DecodeError(resp.Body, sdkErr)
        ra == ParseInt(resp.RetryAfter)
    IN  IF resp.StatusCode >= StatusBadRequest
        THEN IF d.err
             THEN Outcome("done", RetError(d.val), 0, retriedCount)
             ELSE IF resp.StatusCode = StatusTooManyRequests
             THEN IF ra.err
                  THEN Outcome("done", RetError(d.val), 0, retriedCount)
                  ELSE Outcome("sleep429", Nil, ra.i * Second, retriedCount)
             ELSE IF resp.StatusCode >= StatusInternalServerError
             THEN IF retriedCount > o.MaxReadRetry - 1
                  THEN Outcome("done", RetError(d.val), 0, retriedCount)
                  ELSE Outcome("sleep5xx", Nil, o.RetryInterval, retriedCount + 1)
             ELSE Outcome("done", RetError(d.val), 0, retriedCount)
        ELSE IF ~DecodeOutput(resp.Body).err
             THEN Outcome("done", Ret("ok"), 0, retriedCount)
             ELSE Outcome("done", Ret("decode"), 0, retriedCount)

\* Client.query, from "if resp.StatusCode >= 400" to its last return
queryOutcome(resp, retriedCount, o) ==
    LET sdkErr == [StatusCode |-> resp.StatusCode, Code |-> "", Message |-> ""]
        d == DecodeError(resp.Body, sdkErr)
        ra == ParseInt(resp.RetryAfter)
    IN  IF resp.StatusCode >= StatusBadRequest
        THEN IF d.err
             THEN Outcome("done", RetError(d.val), 0, retriedCount)
             ELSE IF resp.StatusCode = StatusTooManyRequests
             THEN IF ra.err
                  THEN Outcome("done", RetError(d.val), 0, retriedCount)
                  ELSE Outcome("sleep429", Nil, ra.i * Second, retriedCount)
             ELSE IF resp.StatusCode >= StatusInternalServerError
             THEN IF retriedCount >= o.MaxReadRetry - 1
                  THEN Outcome("done", RetError(d.val), 0, retriedCount)
                  ELSE Outcome("sleep5xx", Nil, o.RetryInterval, retriedCount + 1)
             ELSE Outcome("done", RetError(d.val), 0, retriedCount)
        ELSE IF ~DecodeOutput(resp.Body).err
             THEN Outcome("done", Ret("ok"), 0, retriedCount)
             ELSE Outcome("done", Ret("decode"), 0, retriedCount)

\* commandOutcome on the retry path of queries
commandOutcomeAsQuery(resp, retriedCount, o) == queryOutcome(resp, retriedCount, o)

\* Client.command: the executor's rules for a state-mutating operation
commandOutcome(resp, retriedCount, o) ==
    LET sdkErr == [StatusCode |-> resp.StatusCode, Code |-> "", Message |-> ""]
        d == DecodeError(resp.Body, sdkErr)
        ra == ParseInt(resp.RetryAfter)
    IN  IF resp.StatusCode >= StatusBadRequest
        THEN IF resp.StatusCode = StatusTooManyRequests /\ ~ra.err
             THEN Outcome("sleep429", Nil, ra.i * Second, retriedCount)
             ELSE Outcome("done", RetError(d.val), 0, retriedCount)
        ELSE IF ~DecodeOutput(resp.Body).err
             THEN Outcome("done", Ret("ok"), 0, retriedCount)
             ELSE Outcome("done", Ret("decode"), 0, retriedCount)

\* ------------------------------------------------------------ one call
\* the calls that run under Spec: one call at a time on the client
SeqCalls == {1}

Set(c, call) ==
    /\ calls' = [calls EXCEPT ![c] = call]
    /\ UNCHANGED <<options, credentials, setArgs, newArgs, wait>>

\* "return err": the call is over
Return(call, ret) == [call EXCEPT !.pc = "done", !.ret = ret]

\* history: what the call still did after its context was cancelled
Mark(call, op) == IF call.cancelled THEN call.postCancel \cup {op} ELSE call.postCancel

QueryNames == {"list_client_accounts"}
CommandNames == {"create_investment_request"}

\* a wrapper such as ListClientAccounts enters c.query(ctx, name, input, &output)
StartQueryWith(c, inputs, ctxNils) ==
    /\ calls[c].pc \in {"idle", "done"}
    /\ \E name \in QueryNames, input \in inputs, ctxNil \in ctxNils :
          Set(c, [IdleCall EXCEPT !.pc = "build", !.kind = "query", !.name = name,
                                  !.input = input, !.ctxNil = ctxNil])

StartQuery(c) == StartQueryWith(c, Payloads, BOOLEAN)

\* a wrapper such as CreateInvestmentRequest enters c.command(ctx, name, input, &output)
StartCommand(c) ==
    /\ calls[c].pc \in {"idle", "done"}
    /\ \E name \in CommandNames, input \in Payloads, ctxNil \in BOOLEAN :
          Set(c, [IdleCall EXCEPT !.pc = "build", !.kind = "command", !.name = name,
                                  !.input = input, !.ctxNil = ctxNil])

\* Build with the untrimmed buffer sent while the token covers the trimmed bytes
BuildUntrimmed(c) ==
    LET call == calls[c]
        a == [call EXCEPT !.attempt = @ + 1, !.postCancel = Mark(call, "build")]
        e1 == Encode(call.input)
        e2 == EncodeEnvelope(call.name, call.input)
        reqBody == TrimRight(e2.bytes, "\n")
    IN  /\ call.pc = "build"
        /\ Set(c, IF e1.err \/ e2.err
                  THEN Return(a, Ret("encode"))
                  ELSE IF call.ctxNil
                  THEN Return(a, Ret("request"))
                  ELSE [a EXCEPT !.pc = "creds",
                                 !.reqBody = reqBody,
                                 !.req = [Method |-> "POST",
                                          URL |-> <<endpoint, Route(call.kind)>>,
                                          Body |-> e2.bytes,
                                          UserAgent |-> userAgent,
                                          Authorization |-> Nil],
                                 !.keyID = "", !.privateKeyPEM = ""])

\* label retry: encode the envelope, create the request (a nil context is refused)
Build(c) ==
    LET call == calls[c]
        a == [call EXCEPT !.attempt = @ + 1, !.postCancel = Mark(call, "build")]
        e1 == Encode(call.input)
        e2 == EncodeEnvelope(call.name, call.input)
        reqBody == TrimRight(e2.bytes, "\n")
    IN  /\ call.pc = "build"
        /\ Set(c, IF e1.err \/ e2.err
                  THEN Return(a, Ret("encode"))
                  ELSE IF call.ctxNil
                  THEN Return(a, Ret("request"))
                  ELSE [a EXCEPT !.pc = "creds",
                                 !.reqBody = reqBody,
                                 !.req = [Method |-> "POST",
                                          URL |-> <<endpoint, Route(call.kind)>>,
                                          Body |-> reqBody,
                                          UserAgent |-> userAgent,
                                          Authorization |-> Nil],
                                 !.keyID = "", !.privateKeyPEM = ""])

\* the call after the credentials were asked for, r being what came back
AfterCredentials(call, r, viaLoader) ==
    LET a == [call EXCEPT !.loaderCalls = IF viaLoader THEN @ + 1 ELSE @,
                          !.postCancel = Mark(call, "creds")]
    IN  IF r.err
        THEN Return(a, Ret(IF viaLoader THEN "loader" ELSE "config"))
        ELSE [a EXCEPT !.pc = "token", !.keyID = r.keyID,
                       !.privateKeyPEM = r.privateKeyPEM]

\* LoadCredentials keeping what the retrieval function returned in the client
LoadCredentialsCache(c) ==
    LET call == calls[c]
    IN  /\ call.pc = "creds"
        /\ IF ~options.CredentialsLoaderFunc
           THEN Set(c, AfterCredentials(call, defaultCredentialsLoaderFunc(credentials), FALSE))
           ELSE \E r \in LoaderResults :
                  /\ calls' = [calls EXCEPT ![c] = AfterCredentials(call, r, TRUE)]
                  /\ credentials' = IF r.err THEN credentials
                                    ELSE [keyID |-> r.keyID,
                                          privateKeyPEM |-> r.privateKeyPEM]
                  /\ UNCHANGED <<options, setArgs, newArgs, wait>>

\* o := c.options; the stored credentials or the retrieval function
LoadCredentials(c) ==
    LET call == calls[c]
    IN  /\ call.pc = "creds"
        /\ IF ~options.CredentialsLoaderFunc
           THEN Set(c, AfterCredentials(call, defaultCredentialsLoaderFunc(credentials), FALSE))
           ELSE \E r \in LoaderResults : Set(c, AfterCredentials(call, r, TRUE))

\* NewToken with the token of the first attempt kept for the retries
NewTokenOnce(c) ==
    LET call == calls[c]
        a == [call EXCEPT !.postCancel = Mark(call, "token")]
    IN  /\ call.pc = "token"
        /\ \E randOK \in BOOLEAN :
              Set(c, IF ~randOK
                     THEN Return(a, Ret("token"))
                     ELSE [a EXCEPT !.pc = "sign",
                                    !.token = newToken(call.keyID, Route(call.kind),
                                                       call.reqBody, Hour,
                                                       options.CredentialsLoaderFunc,
                                                       <<c, 1>>)])

\* token, err := newToken(keyID, "/query", reqBody, 1*time.Hour, ...)
NewToken(c) ==
    LET call == calls[c]
        a == [call EXCEPT !.postCancel = Mark(call, "token")]
    IN  /\ call.pc = "token"
        /\ \E randOK \in BOOLEAN :
              Set(c, IF ~randOK
                     THEN Return(a, Ret("token"))
                     ELSE [a EXCEPT !.pc = "sign",
                                    !.token = newToken(call.keyID, Route(call.kind),
                                                       call.reqBody, Hour,
                                                       options.CredentialsLoaderFunc,
                                                       <<c, call.attempt>>)])

\* AfterSign with the signing error dropped: the request goes out unsigned
AfterSignIgnoreErr(call, r) ==
    LET a == [call EXCEPT !.postCancel = Mark(call, "sign")]
    IN  [a EXCEPT !.pc = "send", !.signs = @ + 1,
                  !.signature = r.signature,
                  !.req = [@ EXCEPT !.Authorization =
                              [scheme |-> "Bearer", token |-> r.signature]]]

\* the call after token.signAndFormat gave r
AfterSign(call, r) ==
    LET a == [call EXCEPT !.postCancel = Mark(call, "sign")]
    IN  IF r.err
        THEN Return(a, Ret("sign"))
        ELSE [a EXCEPT !.pc = "send", !.signs = @ + 1,
                       !.signature = r.signature,
                       !.req = [@ EXCEPT !.Authorization =
                                   [scheme |-> "Bearer", token |-> r.signature]]]

\* signature, err := token.signAndFormat(privateKeyPEM); set the Authorization header
\* Sign wiping the stored credentials once the signature is made
SignAndClear(c) ==
    LET call == calls[c]
    IN  /\ call.pc = "sign"
        /\ calls' = [calls EXCEPT
                        ![c] = AfterSign(call, signAndFormat(call.token, call.privateKeyPEM))]
        /\ credentials' = Nil
        /\ UNCHANGED <<options, setArgs, newArgs, wait>>

Sign(c) ==
    LET call == calls[c]
    IN  /\ call.pc = "sign"
        /\ Set(c, AfterSign(call, signAndFormat(call.token, call.privateKeyPEM)))

\* o.HTTPClient.Do(req), first half: a request whose context is done is not sent
Do(c) ==
    LET call == calls[c]
    IN  /\ call.pc = "send"
        /\ Set(c, IF call.cancelled
                  THEN Return(call, Ret("ctx"))
                  ELSE [call EXCEPT !.pc = "inflight", !.sent = @ + 1,
                                    !.wire = call.req])

\* AfterDoError with transport errors put on the server-error retry path
AfterDoErrorRetry(call, o, ret) ==
    IF call.retriedCount >= o.MaxReadRetry - 1
    THEN [call EXCEPT !.pc = "done", !.ret = ret]
    ELSE [call EXCEPT !.pc = "sleep5xx", !.retriedCount = @ + 1,
                      !.sleeps = @ + 1, !.lastSleep = o.RetryInterval]

\* the call after Do returned an error and no response
AfterDoError(call, o, ret) == Return(call, ret)

\* the call after Do returned the response r: keyID = "", req = nil; resp.Body
\* is open from here on and query has no resp.Body.Close()
AfterResponse(call, r) ==
    [call EXCEPT !.pc = "evaluate", !.resp = r, !.keyID = "", !.req = Nil,
                 !.openBodies = @ + 1,
                 !.got5xx = IF r.StatusCode >= StatusInternalServerError THEN @ + 1 ELSE @,
                 !.got429 = IF r.StatusCode = StatusTooManyRequests THEN @ + 1 ELSE @]

\* o.HTTPClient.Do(req), second half: an error or a response comes back
DoReturnFrom(c, responses) ==
    LET call == calls[c]
    IN  /\ call.pc = "inflight"
        /\ \/ /\ call.cancelled
              /\ Set(c, AfterDoError(call, options, Ret("ctx")))
           \/ /\ ~call.cancelled
              /\ Set(c, AfterDoError(call, options, Ret("transport")))
           \/ \E r \in responses :
                /\ r.StatusCode = StatusTooManyRequests => call.got429 < Max429
                /\ Set(c, AfterResponse(call, r))

DoReturn(c) == DoReturnFrom(c, Responses)

\* the call after the response was classified
AfterOutcome(call, out) ==
    IF out.next = "done"
    THEN [Return(call, out.ret) EXCEPT
            !.output = IF call.resp.StatusCode < StatusBadRequest
                       THEN DecodeOutput(call.resp.Body).val
                       ELSE @]
    ELSE [call EXCEPT !.pc = out.next,
                      !.retriedCount = out.retriedCount,
                      !.sleeps = @ + 1, !.lastSleep = out.sleep,
                      !.retried429 = IF out.next = "sleep429" THEN @ + 1 ELSE @]

\* Evaluate with one retry counter shared by the calls of the client
EvaluateShared(c) ==
    LET call == calls[c]
        counts == {calls[d].retriedCount : d \in Calls}
        shared == CHOOSE n \in counts : \A m \in counts : m <= n
    IN  /\ call.pc = "evaluate"
        /\ Set(c, AfterOutcome(call,
                     IF call.kind = "query"
                     THEN queryOutcome(call.resp, shared, options)
                     ELSE commandOutcome(call.resp, shared, options)))

\* if resp.StatusCode >= 400 { ... } return Decode(&output)
Evaluate(c) ==
    LET call == calls[c]
    IN  /\ call.pc = "evaluate"
        /\ Set(c, AfterOutcome(call,
                     IF call.kind = "query"
                     THEN queryOutcome(call.resp, call.retriedCount, options)
                     ELSE commandOutcome(call.resp, call.retriedCount, options)))

\* Wake with the retry label placed after the signing, at the send
WakePastSign(c) ==
    LET call == calls[c]
    IN  /\ call.pc \in {"sleep429", "sleep5xx"}
        /\ Set(c, [call EXCEPT !.pc = "send", !.attempt = @ + 1,
                               !.postCancel = Mark(call, "wake"),
                               !.resp = Nil, !.lastSleep = 0])

\* Wake for the retry interval only: the wait after a 429 never ends
WakeOnly5xx(c) ==
    LET call == calls[c]
    IN  /\ call.pc \in {"sleep5xx"}
        /\ Set(c, [call EXCEPT !.pc = "build", !.postCancel = Mark(call, "wake"),
                               !.token = Nil, !.signature = Nil, !.wire = Nil,
                               !.resp = Nil, !.lastSleep = 0])

\* time.Sleep returns; goto retry leaves the scope of token, signature and resp
Wake(c) ==
    LET call == calls[c]
    IN  /\ call.pc \in {"sleep429", "sleep5xx"}
        /\ Set(c, [call EXCEPT !.pc = "build", !.postCancel = Mark(call, "wake"),
                               !.token = Nil, !.signature = Nil, !.wire = Nil,
                               !.resp = Nil, !.lastSleep = 0])

\* the caller cancels the context it passed to the call
Cancel(c) ==
    LET call == calls[c]
    IN  /\ call.pc \notin {"idle", "done"}
        /\ ~call.ctxNil
        /\ ~call.cancelled
        /\ Set(c, [call EXCEPT !.cancelled = TRUE, !.cancelPc = call.pc])

Step(c) ==
    \/ StartQuery(c)
    \/ StartCommand(c)
    \/ Build(c)
    \/ LoadCredentials(c)
    \/ NewToken(c)
    \/ Sign(c)
    \/ Do(c)
    \/ DoReturn(c)
    \/ Evaluate(c)
    \/ Wake(c)
    \/ Cancel(c)

Next ==
    \/ \E c \in SeqCalls : Step(c)
    \/ \E in \in SetInputs : SetCredentials(in[1], in[2])

Spec == Init /\ [][Next]_vars

\* --------------------------------------- two calls at once on one client
\* the goroutines that call the client at the same time
ConcCalls == {1, 2}

\* what the server answers them: a server error, a success, a rate limit
ConcResponses ==
    {[StatusCode |-> 500, RetryAfter |-> <<>>, Body |-> BodyPlain],
     [StatusCode |-> 200, RetryAfter |-> <<>>, Body |-> BodyPlain],
     [StatusCode |-> 429, RetryAfter |-> <<"1">>, Body |-> BodyPlain]}

\* c := New(&Options{MaxReadRetry: m}); c.SetCredentials("k1", pem1)
InitConc ==
    /\ \E m \in 1 .. MaxM :
          /\ newArgs = <<[CredentialsLoaderFunc |-> FALSE,
                          HTTPClient |-> NilHTTPClient,
                          MaxReadRetry |-> m,
                          RetryInterval |-> 0]>>
          /\ options = New(newArgs)
    /\ setArgs = [keyID |-> "k1", privateKeyPEM |-> "pem1"]
    /\ credentials = StoredAfterSetCredentials(options, Nil, "k1", "pem1")
    /\ calls = [c \in Calls |-> IdleCall]
    /\ wait = Nil

StepConc(c) ==
    \/ StartQueryWith(c, {<<"{", "}">>}, {FALSE})
    \/ Build(c)
    \/ LoadCredentials(c)
    \/ NewToken(c)
    \/ Sign(c)
    \/ Do(c)
    \/ DoReturnFrom(c, ConcResponses)
    \/ Evaluate(c)
    \/ Wake(c)

NextConc == \E c \in ConcCalls : StepConc(c)

SpecConc == InitConc /\ [][NextConc]_vars

\* ------------------------------------------------ a call runs to its end
\* c := New(&Options{...}) with or without a retrieval function, then
\* c.SetCredentials("k1", pem1)
InitLive ==
    /\ \E m \in 1 .. MaxM, loader \in BOOLEAN :
          /\ newArgs = <<[CredentialsLoaderFunc |-> loader,
                          HTTPClient |-> NilHTTPClient,
                          MaxReadRetry |-> m,
                          RetryInterval |-> 0]>>
          /\ options = New(newArgs)
    /\ setArgs = [keyID |-> "k1", privateKeyPEM |-> "pem1"]
    /\ credentials = StoredAfterSetCredentials(options, Nil, "k1", "pem1")
    /\ calls = [c \in Calls |-> IdleCall]
    /\ wait = Nil

\* the steps the goroutine of a call takes by itself: straight-line code,
\* round trips that complete and waits that end
Progress(c) ==
    \/ Build(c)
    \/ LoadCredentials(c)
    \/ NewToken(c)
    \/ Sign(c)
    \/ Do(c)
    \/ DoReturn(c)
    \/ Evaluate(c)
    \/ Wake(c)

NextLive ==
    \E c \in SeqCalls :
        \/ StartQuery(c)
        \/ Cancel(c)
        \/ Progress(c)

SpecLive ==
    InitLive /\ [][NextLive]_vars /\ \A c \in SeqCalls : WF_vars(Progress(c))

\* ------------------------------- SetCredentials while a query is running
\* Nothing orders the write of c.credentials in SetCredentials and the three
\* reads of it in defaultCredentialsLoaderFunc (the nil test, .keyID,
\* .privateKeyPEM): each read sees what is stored when it happens.
ReadCredentialsPointer(c) ==
    LET call == calls[c]
    IN  /\ call.pc = "creds"
        /\ ~options.CredentialsLoaderFunc
        /\ Set(c, IF credentials = Nil
                  THEN AfterCredentials(call, defaultCredentialsLoaderFunc(Nil), FALSE)
                  ELSE [call EXCEPT !.pc = "credsKeyID"])

ReadKeyID(c) ==
    LET call == calls[c]
    IN  /\ call.pc = "credsKeyID"
        /\ Set(c, [call EXCEPT !.pc = "credsPEM", !.keyID = credentials.keyID])

ReadPrivateKeyPEM(c) ==
    LET call == calls[c]
    IN  /\ call.pc = "credsPEM"
        /\ Set(c, AfterCredentials(call,
                     [keyID |-> call.keyID,
                      privateKeyPEM |-> credentials.privateKeyPEM,
                      err |-> FALSE], FALSE))

\* what the server answers in this setting: a server error or a success
RaceResponses ==
    {[StatusCode |-> 500, RetryAfter |-> <<>>, Body |-> BodyPlain],
     [StatusCode |-> 200, RetryAfter |-> <<>>, Body |-> BodyPlain]}

\* c := New(&Options{MaxReadRetry: m}), no retrieval function
InitRace ==
    /\ \E m \in 1 .. MaxM :
          /\ newArgs = <<[CredentialsLoaderFunc |-> FALSE,
                          HTTPClient |-> NilHTTPClient,
                          MaxReadRetry |-> m,
                          RetryInterval |-> 0]>>
          /\ options = New(newArgs)
    /\ setArgs = Nil
    /\ credentials = Nil
    /\ calls = [c \in Calls |-> IdleCall]
    /\ wait = Nil

StepRace(c) ==
    \/ StartQueryWith(c, {<<"{", "}">>}, {FALSE})
    \/ Build(c)
    \/ ReadCredentialsPointer(c)
    \/ ReadKeyID(c)
    \/ ReadPrivateKeyPEM(c)
    \/ NewToken(c)
    \/ Sign(c)
    \/ Do(c)
    \/ DoReturnFrom(c, RaceResponses)
    \/ Evaluate(c)
    \/ Wake(c)

NextRace ==
    \/ \E c \in SeqCalls : StepRace(c)
    \/ \E in \in SetInputs : SetCredentials(in[1], in[2])

SpecRace == InitRace /\ [][NextRace]_vars

\* ------------------------------------------------- New on its own inputs
\* every shape of Options a caller can hand to New
NewInputs ==
    [CredentialsLoaderFunc : BOOLEAN,
     HTTPClient : {NilHTTPClient,
                   [isNil |-> FALSE, Timeout |-> 0],
                   [isNil |-> FALSE, Timeout |-> 5 * Second]},
     MaxReadRetry : -1 .. MaxM,
     RetryInterval : {0 - Millisecond, 0, Millisecond, 100 * Millisecond}]

InitNew ==
    /\ newArgs \in {<<>>} \cup {<<o>> : o \in NewInputs}
    /\ options = Nil
    /\ credentials = Nil
    /\ calls = [c \in Calls |-> IdleCall]
    /\ wait = Nil
    /\ setArgs = Nil

\* the caller runs New(newArgs...)
Construct ==
    /\ options = Nil
    /\ options' = New(newArgs)
    /\ UNCHANGED <<credentials, calls, setArgs, newArgs, wait>>

NextNew == Construct

SpecNew == InitNew /\ [][NextNew]_vars

\* ------------------------------------- the 429 wait at the code's width
\* int64 values are kept as little-endian sequences of bytes; WideBytes bytes
\* hold every product of an int64 magnitude and time.Second without loss
Int64Bytes == 8
WideBytes == Int64Bytes + 4

WideZero(n) == [i \in 1 .. n |-> 0]

\* x * m + carry on bytes from position i on; a carry out of the top is dropped
RECURSIVE MulAddFrom(_, _, _, _)
MulAddFrom(x, m, carry, i) ==
    IF i > Len(x) THEN <<>>
    ELSE LET t == x[i] * m + carry
         IN  <<t % 256>> \o MulAddFrom(x, m, t \div 256, i + 1)

MulAdd(x, m, a) == MulAddFrom(x, m, a, 1)

\* x < y, compared from byte i downwards
RECURSIVE WideLess(_, _, _)
WideLess(x, y, i) ==
    IF i = 0 THEN FALSE
    ELSE IF x[i] # y[i] THEN x[i] < y[i]
    ELSE WideLess(x, y, i - 1)

\* the value of a run of decimal digits
RECURSIVE WideDigits(_)
WideDigits(s) ==
    IF Len(s) = 0 THEN WideZero(WideBytes)
    ELSE MulAdd(WideDigits(SubSeq(s, 1, Len(s) - 1)), 10, DigitVal(s[Len(s)]))

\* 1<<63 - 1 and 1<<63, the largest magnitudes of a positive and a negative int64
MaxInt64 ==
    [i \in 1 .. WideBytes |->
        IF i < Int64Bytes THEN 255 ELSE IF i = Int64Bytes THEN 127 ELSE 0]
MinInt64Magnitude ==
    [i \in 1 .. WideBytes |-> IF i = Int64Bytes THEN 128 ELSE 0]

\* strconv.ParseInt(s, 10, 64) with the range check of 64 bits: sign and magnitude
ParseInt64(s) ==
    LET signed == Len(s) > 0 /\ s[1] \in {"+", "-"}
        digits == IF signed THEN SubSeq(s, 2, Len(s)) ELSE s
        neg == signed /\ s[1] = "-"
        mag == WideDigits(digits)
        limit == IF neg THEN MinInt64Magnitude ELSE MaxInt64
    IN  IF Len(digits) = 0 \/ \E i \in 1 .. Len(digits) : digits[i] \notin CharDigits
        THEN [err |-> TRUE, neg |-> FALSE, mag |-> WideZero(WideBytes)]
        ELSE IF WideLess(limit, mag, WideBytes)
        THEN [err |-> TRUE, neg |-> FALSE, mag |-> WideZero(WideBytes)]
        ELSE [err |-> FALSE, neg |-> neg /\ mag # WideZero(WideBytes), mag |-> mag]

\* |i| * 1e9 without loss: time.Second is 1000 * 1000 * 1000 nanoseconds
WideNanoseconds(mag) == MulAdd(MulAdd(MulAdd(mag, 1000, 0), 1000, 0), 1000, 0)

\* time.Duration(i) * time.Second: the low 64 bits of the product, two's complement
DurationSeconds(i) ==
    LET low == SubSeq(WideNanoseconds(i.mag), 1, Int64Bytes)
    IN  IF i.neg
        THEN MulAdd([k \in 1 .. Int64Bytes |-> 255 - low[k]], 1, 1)
        ELSE low

DurationNegative(d) == d[Int64Bytes] >= 128

\* time.Sleep(d) returns at once for d <= 0: the nanoseconds it waits
Slept(d) == IF DurationNegative(d) THEN WideZero(Int64Bytes) ELSE d

\* Retry-After values up to MaxDigits digits, and the edges of int64
Zeros(k) == [i \in 1 .. k |-> "0"]
WideRetryAfter ==
    {sg \o <<d>> \o Zeros(k) :
        sg \in {<<>>, <<"-">>, <<"+">>}, d \in {"1", "2", "9"}, k \in 0 .. MaxDigits - 1}
    \cup RetryAfterValues
    \cup {<<"0">>, <<"-", "0">>,
          <<"9", "2", "2", "3", "3", "7", "2", "0", "3", "6">>,
          <<"9", "2", "2", "3", "3", "7", "2", "0", "3", "7">>,
          <<"9", "2", "2", "3", "3", "7", "2", "0", "3", "6", "8", "5", "4", "7", "7", "5", "8", "0", "7">>,
          <<"9", "2", "2", "3", "3", "7", "2", "0", "3", "6", "8", "5", "4", "7", "7", "5", "8", "0", "8">>,
          <<"-", "9", "2", "2", "3", "3", "7", "2", "0", "3", "6", "8", "5", "4", "7", "7", "5", "8", "0", "8">>}

WaitOf(header, done) ==
    LET i == ParseInt64(header)
        d == DurationSeconds(i)
    IN  IF done /\ ~i.err
        THEN [header |-> header, done |-> done, err |-> FALSE, i |-> i, d |-> d,
              slept |-> Slept(d)]
        ELSE [header |-> header, done |-> done, err |-> done /\ i.err,
              i |-> [err |-> FALSE, neg |-> FALSE, mag |-> WideZero(WideBytes)],
              d |-> WideZero(Int64Bytes), slept |-> WideZero(Int64Bytes)]

\* a query of a default client holds a 429 response with a decodable body
InitWait ==
    /\ newArgs = <<>>
    /\ options = New(newArgs)
    /\ credentials = Nil
    /\ calls = [c \in Calls |-> IdleCall]
    /\ setArgs = Nil
    /\ \E h \in WideRetryAfter : wait = WaitOf(h, FALSE)

\* i, err := strconv.ParseInt(...); time.Sleep(time.Duration(i) * time.Second)
SleepRetryAfter ==
    /\ ~wait.done
    /\ wait' = WaitOf(wait.header, TRUE)
    /\ UNCHANGED <<options, credentials, calls, setArgs, newArgs>>

NextWait == SleepRetryAfter

SpecWait == InitWait /\ [][NextWait]_vars

\* ================================================================= claims
Parseable(resp) == ~ParseInt(resp.RetryAfter).err

\* ----------------------------------------------------------------- C1
\* C1: a query with MaxReadRetry = M whose attempts all receive a 5xx response
\* sends exactly M requests and then returns the classified error; it never
\* sends an (M+1)-th request.
C1_Claim ==
    \A c \in Calls :
        LET call == calls[c]
        IN  /\ (call.kind = "query" /\ call.pc = "done" /\ call.attempt >= 1
                /\ call.got5xx = call.attempt)
               => (call.sent = options.MaxReadRetry /\ call.ret.type = "Error")
            /\ (call.kind = "query" /\ call.got429 = 0
                /\ call.got5xx >= call.attempt - 1)
               => call.sent <= options.MaxReadRetry

\* ----------------------------------------------------------------- C2
\* C2: a 429 response of a query whose Retry-After parses as seconds is always
\* followed by a wait of that many seconds and another attempt, whatever came
\* before, and the 5xx retry counter stays as it was.
C2_Claim ==
    [][\A c \in Calls :
          LET a == calls[c]
              b == calls'[c]
          IN  (a.pc = "evaluate" /\ a.kind = "query"
               /\ a.resp.StatusCode = StatusTooManyRequests /\ Parseable(a.resp)
               /\ b.pc # "evaluate")
              => (b.pc = "sleep429" /\ b.retriedCount = a.retriedCount
                  /\ b.lastSleep = ParseInt(a.resp.RetryAfter).i * Second)]_vars

\* ----------------------------------------------------------------- C3
\* C3: a response of a query with status 400..499 other than 429 ends the call
\* at once with the Error read from the body (the status alone when the body
\* is no JSON): no wait is started and no request is sent after it.
C3_Terminal4xx ==
    [][\A c \in Calls :
          LET a == calls[c]
              b == calls'[c]
              body == a.resp.Body
          IN  (a.pc = "evaluate" /\ a.kind = "query"
               /\ a.resp.StatusCode >= 400 /\ a.resp.StatusCode <= 499
               /\ a.resp.StatusCode # StatusTooManyRequests
               /\ b.pc # "evaluate")
              => /\ b.pc = "done"
                 /\ b.ret.type = "Error"
                 /\ b.ret.Code = body.code /\ b.ret.Message = body.message
                 /\ b.ret.StatusCode = IF body.json /\ body.hasStatusCode
                                       THEN body.statusCode
                                       ELSE a.resp.StatusCode
                 /\ b.sent = a.sent /\ b.sleeps = a.sleeps
                 /\ b.attempt = a.attempt]_vars

\* a query ended by a 404 on its second request, with retry budget left
C3_Witness ==
    \E c \in Calls :
        LET call == calls[c]
        IN  /\ call.kind = "query" /\ call.pc = "done"
            /\ call.resp # Nil /\ call.resp.StatusCode = 404 /\ call.resp.Body.json
            /\ call.ret.type = "Error" /\ call.ret.Code = "ErrInternal"
            /\ call.sent = 2 /\ call.retriedCount = 1
            /\ options.MaxReadRetry >= 3

C5_Claim ==
    \A c \in Calls :
        LET call == calls[c]
        IN  (call.cancelled /\ call.cancelPc \in {"sleep429", "sleep5xx"})
            => /\ call.postCancel = {}
               /\ call.pc \in {"sleep429", "sleep5xx", "done"}
               /\ call.pc = "done" => call.ret.type = "ctx"

\* ----------------------------------------------------------------- C6
\* C6: every attempt asks for the credentials anew (one invocation of the
\* retrieval function per attempt when one is configured) and builds and signs
\* its own token: the request of an attempt carries the token built in that
\* attempt, signed with the credentials obtained in that attempt.
PastCredentials == {"token", "sign", "send", "inflight", "evaluate", "sleep429", "sleep5xx"}
PastSign == {"send", "inflight", "evaluate", "sleep429", "sleep5xx"}

C6_FreshPerAttempt ==
    \A c \in Calls :
        LET call == calls[c]
        IN  /\ ~options.CredentialsLoaderFunc => call.loaderCalls = 0
            /\ options.CredentialsLoaderFunc
               => /\ call.pc \in PastCredentials \cup {"build"}
                     => call.loaderCalls = call.attempt
                  /\ call.pc = "creds" => call.loaderCalls = call.attempt - 1
                  /\ call.loaderCalls \in {call.attempt - 1, call.attempt} \cup {0}
            /\ call.pc = "sign"
               => (call.token.nonce = <<c, call.attempt>> /\ call.token.kid = call.keyID)
            /\ call.pc \in PastSign => call.signs = call.attempt
            /\ call.pc \in {"send", "inflight"}
               => /\ call.req.Authorization.token.claims.nonce = <<c, call.attempt>>
                  /\ call.req.Authorization.token.claims.kid = call.keyID
                  /\ call.req.Authorization.token.key = call.privateKeyPEM
            /\ call.pc \in {"inflight", "evaluate", "sleep429", "sleep5xx"}
               => /\ call.sent = call.attempt
                  /\ call.wire.Authorization.token.claims.nonce = <<c, call.attempt>>
                  /\ call.wire.Authorization.token.key = call.privateKeyPEM

\* the third request of a call is in flight, after one 5xx retry and one 429 round
C6_Witness ==
    \E c \in Calls :
        LET call == calls[c]
        IN  /\ options.CredentialsLoaderFunc
            /\ call.pc = "inflight" /\ call.attempt = 3
            /\ call.retriedCount = 1 /\ call.retried429 = 1
            /\ call.loaderCalls = 3 /\ call.signs = 3

\* ----------------------------------------------------------------- C7
\* C7: with a retrieval function configured, a SetCredentials call changes
\* neither the client nor any call, and every token is signed with the key id
\* and key the retrieval function returned, never with SetCredentials' values.
C7_SetCredentialsIgnored ==
    [][options.CredentialsLoaderFunc
       => /\ credentials' = credentials
          /\ setArgs' # setArgs => (calls' = calls /\ options' = options)
          /\ \A c \in Calls :
                LET b == calls'[c]
                IN  b.signature # Nil
                    => (b.signature.key \in LoaderPEMs
                        /\ b.signature.claims.kid \in LoaderKeyIDs)]_vars

\* SetCredentials was called, and a retry attempt is signed with the retrieved key
C7_Witness ==
    \E c \in Calls :
        LET call == calls[c]
        IN  /\ options.CredentialsLoaderFunc /\ setArgs # Nil /\ credentials = Nil
            /\ call.pc = "send" /\ call.attempt = 2
            /\ call.signature.key = "lpem" /\ call.signature.claims.kid = "lk"

\* ----------------------------------------------------------------- C8
\* C8 (as claimed): without a retrieval function and without any SetCredentials
\* call, every query fails with a configuration error and sends no request.
C8_Claim ==
    (~options.CredentialsLoaderFunc /\ setArgs = Nil)
    => \A c \in Calls :
          LET call == calls[c]
          IN  /\ call.sent = 0
              /\ (call.kind = "query" /\ call.pc = "done") => call.ret.type = "config"

\* C8 (amended): without a retrieval function and without any SetCredentials
\* call, no request is sent and every query fails: with the configuration error,
\* unless building the request already failed (an input that cannot be
\* JSON-encoded, a nil context), and then with that error.
C8_NoCredentials ==
    (~options.CredentialsLoaderFunc /\ setArgs = Nil)
    => \A c \in Calls :
          LET call == calls[c]
          IN  /\ call.sent = 0
              /\ call.pc \in {"idle", "build", "creds", "done"}
              /\ (call.kind = "query" /\ call.pc = "done")
                 => call.ret.type = IF call.input = Unencodable THEN "encode"
                                    ELSE IF call.ctxNil THEN "request"
                                    ELSE "config"

\* a query on such a client has returned the configuration error
C8_Witness ==
    \E c \in Calls :
        LET call == calls[c]
        IN  /\ ~options.CredentialsLoaderFunc /\ setArgs = Nil /\ credentials = Nil
            /\ call.kind = "query" /\ call.pc = "done"
            /\ call.ret.type = "config" /\ call.sent = 0 /\ call.attempt = 1

\* ----------------------------------------------------------------- C9
\* C9: when the credentials cannot be obtained or the token cannot be built or
\* signed, in the first attempt or in a retry, the call returns that error at
\* once: the attempt sends no request, no wait starts, no attempt follows.
AfterPc(pc) ==
    CASE pc = "creds" -> "token" [] pc = "token" -> "sign" [] pc = "sign" -> "send"

C9_AbortOnKeyError ==
    [][\A c \in Calls :
          LET a == calls[c]
              b == calls'[c]
          IN  (a.pc \in {"creds", "token", "sign"} /\ b.pc # a.pc)
              => \/ /\ b.pc = AfterPc(a.pc)
                    /\ a.pc = "creds" => b.privateKeyPEM # ""
                    /\ a.pc = "token" => b.token # Nil
                    /\ a.pc = "sign"
                       => (b.privateKeyPEM \notin BadPEMs /\ b.signature # Nil
                           /\ b.req.Authorization # Nil
                           /\ b.req.Authorization.token = b.signature)
                 \/ /\ b.pc = "done"
                    /\ b.ret.type \in {"config", "loader", "token", "sign"}
                    /\ b.sent = a.sent /\ b.sent = a.attempt - 1
                    /\ b.sleeps = a.sleeps /\ b.attempt = a.attempt]_vars

\* a retry attempt failed to sign with a rotated key: one request sent, budget left
C9_Witness ==
    \E c \in Calls :
        LET call == calls[c]
        IN  /\ call.pc = "done" /\ call.ret.type = "sign"
            /\ call.attempt = 2 /\ call.sent = 1 /\ call.retriedCount = 1
            /\ call.sleeps = 1 /\ options.MaxReadRetry >= 3

\* ---------------------------------------------------------------- C10
\* C10: when the HTTP client returns an error and no response, the call returns
\* that error at once, whatever is left of the retry budget: no wait, no retry.
C10_TransportErrorTerminal ==
    [][\A c \in Calls :
          LET a == calls[c]
              b == calls'[c]
          IN  (a.pc = "inflight" /\ b.pc # "inflight" /\ b.resp = Nil)
              => /\ b.pc = "done"
                 /\ b.ret.type \in {"transport", "ctx"}
                 /\ b.sent = a.sent /\ b.sleeps = a.sleeps
                 /\ b.attempt = a.attempt /\ b.retriedCount = a.retriedCount]_vars

\* the second request of a query failed in the transport, with retry budget left
C10_Witness ==
    \E c \in Calls :
        LET call == calls[c]
        IN  /\ call.kind = "query" /\ call.pc = "done" /\ call.ret.type = "transport"
            /\ call.attempt = 2 /\ call.sent = 2 /\ call.retriedCount = 1
            /\ options.MaxReadRetry >= 3

\* ---------------------------------------------------------------- C11
\* C11 (as claimed): the first response of a query with status < 400 ends the
\* call: the body is decoded into the output, the call returns success, and no
\* further request is sent, whatever responses came before.
C11_Claim ==
    [][\A c \in Calls :
          LET a == calls[c]
              b == calls'[c]
          IN  (a.pc = "evaluate" /\ a.kind = "query"
               /\ a.resp.StatusCode < 400 /\ b.pc # "evaluate")
              => /\ b.pc = "done" /\ b.ret.type = "ok"
                 /\ b.sent = a.sent /\ b.sleeps = a.sleeps
                 /\ b.attempt = a.attempt]_vars

\* C11 (amended): the first response of a query with status < 400 ends the call
\* without a wait or a further request; the call returns what decoding the body
\* into the output gives: success with the output filled from a JSON body, the
\* decoding error (and an untouched output) when the body is no JSON.
C11_SuccessEndsCall ==
    [][\A c \in Calls :
          LET a == calls[c]
              b == calls'[c]
              body == a.resp.Body
          IN  (a.pc = "evaluate" /\ a.kind = "query"
               /\ a.resp.StatusCode < 400 /\ b.pc # "evaluate")
              => /\ b.pc = "done"
                 /\ b.sent = a.sent /\ b.sleeps = a.sleeps
                 /\ b.attempt = a.attempt
                 /\ body.json => /\ b.ret.type = "ok"
                                 /\ b.output # Nil
                                 /\ b.output.code = body.code
                                 /\ b.output.message = body.message
                 /\ ~body.json => (b.ret.type = "decode" /\ b.output = Nil)]_vars

\* a query succeeded on its third request, after a 5xx retry and a 429 round
C11_Witness ==
    \E c \in Calls :
        LET call == calls[c]
        IN  /\ call.kind = "query" /\ call.pc = "done" /\ call.ret.type = "ok"
            /\ call.resp.StatusCode = 200 /\ call.output # Nil
            /\ call.sent = 3 /\ call.retriedCount = 1 /\ call.retried429 = 1

\* ---------------------------------------------------------------- C12
\* resp.Status, the status line text of a response
StatusLine(code) ==
    CASE code = 200 -> "200 OK"
      [] code = 400 -> "400 Bad Request"
      [] code = 404 -> "404 Not Found"
      [] code = 429 -> "429 Too Many Requests"
      [] code = 499 -> "499 Client Closed Request"
      [] code = 500 -> "500 Internal Server Error"
      [] code = 503 -> "503 Service Unavailable"
      [] OTHER -> "unknown"

\* C12: when the body of a response with status >= 400 cannot be decoded, the
\* query returns an Error made from the response alone: its statusCode is the
\* HTTP status and its message is the HTTP status text; the decoding error is
\* never the result of the call.
C12_Claim ==
    \A c \in Calls :
        LET call == calls[c]
        IN  (call.kind = "query" /\ call.pc = "done" /\ call.resp # Nil
             /\ call.resp.StatusCode >= 400 /\ ~call.resp.Body.json)
            => /\ call.ret.type = "Error"
               /\ call.ret.StatusCode = call.resp.StatusCode
               /\ call.ret.Message = StatusLine(call.resp.StatusCode)

\* ---------------------------------------------------------------- C13
\* C13: whatever Options New is given, the client has MaxReadRetry >= 1 and
\* RetryInterval > 0: a MaxReadRetry <= 0 becomes 5, a RetryInterval <= 0
\* becomes 50ms, positive values are kept, and New() gives 5 and 50ms.
C13_NewDefaults ==
    options # Nil
    => /\ options.MaxReadRetry >= 1
       /\ options.RetryInterval > 0
       /\ Len(newArgs) = 0
          => (options.MaxReadRetry = 5 /\ options.RetryInterval = 50 * Millisecond)
       /\ Len(newArgs) > 0
          => LET o == newArgs[1]
             IN  /\ o.MaxReadRetry <= 0 => options.MaxReadRetry = 5
                 /\ o.MaxReadRetry > 0 => options.MaxReadRetry = o.MaxReadRetry
                 /\ o.RetryInterval <= 0 => options.RetryInterval = 50 * Millisecond
                 /\ o.RetryInterval > 0 => options.RetryInterval = o.RetryInterval

\* New was given MaxReadRetry 0 and a negative RetryInterval and put the defaults
C13_Witness ==
    /\ options # Nil /\ Len(newArgs) > 0
    /\ newArgs[1].MaxReadRetry = 0 /\ newArgs[1].RetryInterval < 0
    /\ options.MaxReadRetry = 5 /\ options.RetryInterval = 50 * Millisecond

\* ---------------------------------------------------------------- C14
\* C14: MaxReadRetry is the number of retries: a query whose attempts all get
\* a 5xx response is re-sent MaxReadRetry times after its first attempt, so
\* it has sent MaxReadRetry + 1 requests when the error is returned.
C14_Claim ==
    \A c \in Calls :
        LET call == calls[c]
        IN  (/\ call.kind = "query" /\ call.pc = "done"
             /\ call.ret.type = "Error"
             /\ call.resp # Nil
             /\ call.resp.StatusCode >= StatusInternalServerError
             /\ call.resp.Body.json
             /\ call.got5xx = call.sent)
            => call.sent = options.MaxReadRetry + 1

\* ---------------------------------------------------------------- C15
\* C15: when a query ends with a classified API error, the statusCode of the
\* returned error is the HTTP status of the last response of the call,
\* whatever the body, a JSON body with its own statusCode field included.
C15_Claim ==
    \A c \in Calls :
        LET call == calls[c]
        IN  (/\ call.kind = "query" /\ call.pc = "done"
             /\ call.ret.type = "Error"
             /\ call.resp # Nil)
            => call.ret.StatusCode = call.resp.StatusCode

\* ---------------------------------------------------------------- C16
\* C16: every request a query sends goes to the route "/query", carries the
\* serialized {name, payload} envelope as its body, and bears a token built
\* for "/query" whose bodyHash is the digest of exactly the bytes in that body.
C16_TokenCoversSentBytes ==
    \A c \in Calls :
        LET call == calls[c]
        IN  (call.kind = "query" /\ call.wire # Nil)
            => /\ call.wire.URL = <<endpoint, "/query">>
               /\ call.wire.Body
                    = TrimRight(EncodeEnvelope(call.name, call.input).bytes, "\n")
               /\ call.wire.Authorization # Nil
               /\ call.wire.Authorization.token.claims.uri = "/query"
               /\ call.wire.Authorization.token.claims.bodyHash
                    = Sha256Hex(call.wire.Body)

\* the second attempt of a query is in flight with its signed request
C16_Witness ==
    \E c \in Calls :
        /\ calls[c].kind = "query" /\ calls[c].pc = "inflight"
        /\ calls[c].attempt = 2 /\ calls[c].sent = 2
        /\ calls[c].wire # Nil
        /\ calls[c].wire.Authorization.token.claims.bodyHash
             = Sha256Hex(calls[c].wire.Body)

\* ---------------------------------------------------------------- C17
\* C17: every query that ends because of a response with status >= 400
\* returns a value of type Error, whether that response ended the call at
\* once or came after the retries were used up.
C17_FailureIsError ==
    \A c \in Calls :
        LET call == calls[c]
        IN  (/\ call.kind = "query" /\ call.pc = "done"
             /\ call.resp # Nil
             /\ call.resp.StatusCode >= StatusBadRequest)
            => call.ret.type = "Error"

\* a query gave up after MaxM requests that all got a 5xx response
C17_Witness ==
    \E c \in Calls :
        /\ calls[c].kind = "query" /\ calls[c].pc = "done"
        /\ calls[c].resp # Nil
        /\ calls[c].resp.StatusCode >= StatusInternalServerError
        /\ calls[c].retriedCount = MaxM - 1 /\ calls[c].sent = MaxM
        /\ calls[c].ret.type = "Error"

\* ---------------------------------------------------------------- C18
\* C18: on a client without a retrieval function no step of a call changes
\* the stored credentials: what is stored is always what the last
\* SetCredentials call gave, and every attempt of a query takes the stored
\* key id and private key for its token and signature.
C18_Step ==
    ~options.CredentialsLoaderFunc
    => /\ credentials' = setArgs'
       /\ calls' # calls => credentials' = credentials
       /\ \A c \in Calls :
             (/\ calls[c].kind = "query"
              /\ calls[c].pc = "creds" /\ calls'[c].pc = "token")
             => /\ calls'[c].keyID = credentials.keyID
                /\ calls'[c].privateKeyPEM = credentials.privateKeyPEM

C18_QueryKeepsCredentials == [][C18_Step]_vars

\* a query signed twice (one retry) and succeeded; the pair given to
\* SetCredentials is still stored
C18_Witness ==
    /\ ~options.CredentialsLoaderFunc
    /\ credentials # Nil /\ credentials = setArgs
    /\ \E c \in Calls :
          /\ calls[c].kind = "query" /\ calls[c].pc = "done"
          /\ calls[c].ret.type = "ok"
          /\ calls[c].attempt = 2 /\ calls[c].signs = 2

\* ---------------------------------------------------------------- C20
\* C20: on a client configured with a retrieval function the stored
\* credential field is unset in every reachable state, whatever SetCredentials
\* calls and calls to the service were made.
C20_NothingStored ==
    options.CredentialsLoaderFunc => credentials = Nil

\* SetCredentials was called and a query signed with retrieved credentials
\* succeeded, and nothing is stored
C20_Witness ==
    /\ options.CredentialsLoaderFunc
    /\ setArgs # Nil
    /\ credentials = Nil
    /\ \E c \in Calls :
          /\ calls[c].kind = "query" /\ calls[c].pc = "done"
          /\ calls[c].ret.type = "ok"
          /\ calls[c].loaderCalls >= 1

\* ---------------------------------------------------------------- C19
\* C19: with several calls running at once on one client, each call counts
\* its own 5xx responses only: a query never gets more than MaxReadRetry
\* requests answered by 5xx, its retry counter follows its own 5xx responses,
\* and it gives up on a 5xx only once it has itself received MaxReadRetry of
\* them, whatever the other calls received.
C19_RetryStatePerCall ==
    \A c \in ConcCalls :
        LET call == calls[c]
        IN  /\ call.got5xx <= options.MaxReadRetry
            /\ call.retriedCount <= call.got5xx
            /\ call.got5xx <= call.retriedCount + 1
            /\ call.pc = "sleep5xx" => call.retriedCount = call.got5xx
            /\ (/\ call.pc = "done" /\ call.resp # Nil
                /\ call.resp.StatusCode >= StatusInternalServerError)
               => call.got5xx = options.MaxReadRetry

\* both calls are waiting to retry at the same time, one after its first
\* server error and the other after its second
C19_Witness ==
    /\ calls[1].pc = "sleep5xx" /\ calls[1].got5xx = 1
    /\ calls[2].pc = "sleep5xx" /\ calls[2].got5xx = 2

\* ---------------------------------------------------------------- C21
\* C21: whether a response of a query is retried does not depend on its
\* body: a 5xx response with an undecodable body is retried while the budget
\* lasts, and a 429 response with a parseable Retry-After and an undecodable
\* body is waited on and retried.
C21_Claim ==
    [][\A c \in Calls :
          LET a == calls[c]
              b == calls'[c]
          IN  (a.pc = "evaluate" /\ a.kind = "query"
               /\ ~a.resp.Body.json /\ b.pc # "evaluate")
              => /\ (/\ a.resp.StatusCode >= StatusInternalServerError
                     /\ a.retriedCount < options.MaxReadRetry - 1)
                    => b.pc = "sleep5xx"
                 /\ (a.resp.StatusCode = StatusTooManyRequests /\ Parseable(a.resp))
                    => b.pc = "sleep429"]_vars

\* ---------------------------------------------------------------- C22
\* C22: a 429 response of a query whose Retry-After is missing, empty or not
\* a whole number ends the call at once with the Error of that response: no
\* wait is started and no further request is sent.
C22_BadRetryAfterTerminal ==
    [][\A c \in Calls :
          LET a == calls[c]
              b == calls'[c]
              sdkErr == [StatusCode |-> a.resp.StatusCode, Code |-> "", Message |-> ""]
          IN  (a.pc = "evaluate" /\ a.kind = "query"
               /\ a.resp.StatusCode = StatusTooManyRequests /\ ~Parseable(a.resp)
               /\ b.pc # "evaluate")
              => /\ b.pc = "done"
                 /\ b.ret = RetError(DecodeError(a.resp.Body, sdkErr).val)
                 /\ b.sent = a.sent /\ b.sleeps = a.sleeps
                 /\ b.attempt = a.attempt]_vars

\* a query ended on its first response, a 429 with a JSON body and a
\* Retry-After that is an HTTP date, without any wait
C22_Witness ==
    \E c \in Calls :
        /\ calls[c].kind = "query" /\ calls[c].pc = "done"
        /\ calls[c].resp # Nil
        /\ calls[c].resp.StatusCode = StatusTooManyRequests
        /\ Len(calls[c].resp.RetryAfter) > 0 /\ ~Parseable(calls[c].resp)
        /\ calls[c].resp.Body.json
        /\ calls[c].ret.type = "Error"
        /\ calls[c].sent = 1 /\ calls[c].sleeps = 0

\* ---------------------------------------------------------------- C23
\* C23: for every accepted Retry-After value n the wait before the next
\* attempt lasts at least n seconds: n x 1 second in signed 64-bit
\* nanoseconds never wraps to a shorter or a negative wait.
C23_Claim ==
    (wait # Nil /\ wait.done /\ ~wait.err /\ ~wait.i.neg)
    => ~WideLess(wait.slept \o WideZero(WideBytes - Int64Bytes),
                 WideNanoseconds(wait.i.mag), WideBytes)

\* ---------------------------------------------------------------- C24
\* C24: a query never sends a request without the header Authorization:
\* Bearer <token>, the token being the one signed in the same attempt with the
\* key obtained in that attempt; and an attempt always runs in the order
\* build, obtain credentials, build the claims, sign and attach, send.
AttemptOrder ==
    {<<"build", "creds">>, <<"creds", "token">>, <<"token", "sign">>,
     <<"sign", "send">>, <<"send", "inflight">>, <<"inflight", "evaluate">>,
     <<"evaluate", "sleep429">>, <<"evaluate", "sleep5xx">>,
     <<"sleep429", "build">>, <<"sleep5xx", "build">>}

C24_SignedBeforeSent ==
    [][\A c \in Calls :
          LET a == calls[c]
              b == calls'[c]
          IN  (a.kind = "query" /\ b.kind = "query"
               /\ a.pc \notin {"idle", "done"} /\ b.pc # a.pc)
              => /\ b.pc = "done" \/ <<a.pc, b.pc>> \in AttemptOrder
                 /\ b.pc = "inflight"
                    => /\ b.sent = a.sent + 1 /\ b.sent = b.attempt
                       /\ b.signs = b.attempt
                       /\ b.wire # Nil
                       /\ b.wire.Authorization # Nil
                       /\ b.wire.Authorization.scheme = "Bearer"
                       /\ b.wire.Authorization.token # Nil
                       /\ b.wire.Authorization.token = a.signature
                       /\ a.signature = signAndFormat(a.token, a.privateKeyPEM).signature
                       /\ a.token.kid = a.keyID
                       /\ a.token.nonce = <<c, a.attempt>>
                 /\ b.pc # "inflight" => b.sent = a.sent]_vars

\* the second request of a query is in flight, signed in the second attempt
C24_Witness ==
    \E c \in Calls :
        /\ calls[c].kind = "query" /\ calls[c].pc = "inflight"
        /\ calls[c].attempt = 2 /\ calls[c].signs = 2 /\ calls[c].sent = 2
        /\ calls[c].wire.Authorization.scheme = "Bearer"
        /\ calls[c].wire.Authorization.token.claims.nonce = <<c, 2>>

\* ---------------------------------------------------------------- C25
\* C25: within a query the 5xx retry counter is never reset or decreased: it
\* grows by one on each retried 5xx response and on nothing else, 429 rounds
\* leave it as it is, and the call returns its error on the MaxReadRetry-th
\* 5xx response it receives overall, consecutive or not.
C25_CounterKept ==
    [][\A c \in Calls :
          LET a == calls[c]
              b == calls'[c]
              is5xx == a.pc = "evaluate"
                       /\ a.resp.StatusCode >= StatusInternalServerError
          IN  (a.kind = "query" /\ a.pc \notin {"idle", "done"})
              => /\ b.retriedCount >= a.retriedCount
                 /\ b.retriedCount # a.retriedCount
                    => (is5xx /\ b.pc = "sleep5xx"
                        /\ b.retriedCount = a.retriedCount + 1)
                 /\ a.got5xx <= options.MaxReadRetry
                 /\ a.retriedCount = IF is5xx THEN a.got5xx - 1 ELSE a.got5xx
                 /\ (is5xx /\ a.got5xx = options.MaxReadRetry /\ b.pc # a.pc)
                    => (b.pc = "done" /\ b.ret.type = "Error")]_vars

\* a query waits on a 429 that came after a retried 5xx: the count is still 1
C25_Witness ==
    \E c \in Calls :
        /\ calls[c].kind = "query" /\ calls[c].pc = "sleep429"
        /\ calls[c].got5xx = 1 /\ calls[c].retriedCount = 1
        /\ calls[c].sent = 2

\* ---------------------------------------------------------------- C26
\* C26: in every state of a query 0 <= retriedCount <= MaxReadRetry - 1, and
\* the requests sent so far number at most 1 + retriedCount + the 429
\* responses retried so far; so a call never sends more than MaxReadRetry
\* requests plus one per 429 response it received.
C26_SendBound ==
    \A c \in Calls :
        LET call == calls[c]
        IN  call.kind = "query"
            => /\ 0 <= call.retriedCount
               /\ call.retriedCount <= options.MaxReadRetry - 1
               /\ call.sent <= 1 + call.retriedCount + call.retried429
               /\ call.retried429 <= call.got429
               /\ call.sent <= options.MaxReadRetry + call.got429

\* a query used its whole budget: MaxM requests answered by 5xx and Max429
\* rate-limit rounds
C26_Witness ==
    \E c \in Calls :
        /\ calls[c].kind = "query" /\ calls[c].pc = "done"
        /\ options.MaxReadRetry = MaxM
        /\ calls[c].retriedCount = MaxM - 1
        /\ calls[c].retried429 = Max429
        /\ calls[c].sent = MaxM + Max429

\* ---------------------------------------------------------------- C27
\* C27: a query that was started eventually returns, when every round trip
\* and every wait completes and the server sends a 429 with a parseable
\* Retry-After at most Max429 times during the call.
C27_QueryReturns ==
    \A c \in SeqCalls :
        (calls[c].kind = "query" /\ calls[c].pc \notin {"idle", "done"})
        ~> (calls[c].pc = "done")

\* a query returned after waiting on a 429 and on a 5xx
C27_Witness ==
    \E c \in SeqCalls :
        /\ calls[c].kind = "query" /\ calls[c].pc = "done"
        /\ calls[c].retried429 >= 1 /\ calls[c].retriedCount >= 1
        /\ calls[c].sleeps >= 2

\* ---------------------------------------------------------------- C28
\* C28: with SetCredentials running while a query runs on a client without a
\* retrieval function, every request is signed with a key id and a private
\* key that one single SetCredentials call stored together.
C28_Claim ==
    \A c \in Calls :
        LET call == calls[c]
        IN  (/\ ~options.CredentialsLoaderFunc
             /\ call.kind = "query" /\ call.pc \in {"send", "inflight"})
            => <<call.req.Authorization.token.claims.kid,
                 call.req.Authorization.token.key>> \in SetInputs

\* ---------------------------------------------------------------- C29
\* C29: every response a call obtains has its body closed before the next
\* attempt starts or the call returns: a call never holds more than one open
\* response body, and none is open once it has returned.
C29_Claim ==
    \A c \in Calls :
        LET call == calls[c]
        IN  /\ call.openBodies <= 1
            /\ call.pc \in {"build", "done"} => call.openBodies = 0

====
